---- MODULE Spec2Model ----
(***************************************************************************)
(* Model of lib/cli.js (class Cli): the settings merge, the generated log  *)
(* methods, the constructor's error path, and the shared default settings  *)
(* document that every construction starts from.                           *)
(*                                                                         *)
(* JavaScript values are tagged records.  Mappings that live in the        *)
(* process (the default settings document and everything merged into it)   *)
(* are cells of a heap and are referred to by address, so that aliasing    *)
(* between hosts and the default document is what the code makes it.       *)
(* Mappings handed in by the caller are inline literals.                   *)
(***************************************************************************)
EXTENDS Integers, Sequences, FiniteSets, TLC

VARIABLES argv, heap, hosts, lastCall, exited

vars == <<argv, heap, hosts, lastCall, exited>>

(* Number of constructions `new Cli(...)` explored in one process. *)
MaxHosts == 2

-----------------------------------------------------------------------------
(* JavaScript values *)

Undef == [t |-> "undefined", s |-> "", a |-> <<>>, o |-> <<>>, r |-> 0]

Str(x) == [t |-> "string", s |-> x, a |-> <<>>, o |-> <<>>, r |-> 0]

Bool(b) == [t |-> "boolean", s |-> IF b THEN "true" ELSE "false", a |-> <<>>, o |-> <<>>, r |-> 0]

Num(x) == [t |-> "number", s |-> x, a |-> <<>>, o |-> <<>>, r |-> 0]

Arr(elems) == [t |-> "array", s |-> "", a |-> elems, o |-> <<>>, r |-> 0]

Lit(entries) == [t |-> "literal", s |-> "", a |-> <<>>, o |-> entries, r |-> 0]

Ref(addr) == [t |-> "object", s |-> "", a |-> <<>>, o |-> <<>>, r |-> addr]

E(key, val) == [k |-> key, v |-> val]

(* typeof v *)
TypeOf(v) ==
  IF v.t \in {"array", "literal", "object"} THEN "object" ELSE v.t

IsArray(v) == v.t = "array"

(* truthiness of a value, as `if (v)` and `!v` see it *)
Truthy(v) ==
  CASE v.t = "undefined" -> FALSE
    [] v.t = "boolean" -> v.s = "true"
    [] v.t = "string" -> v.s # ""
    [] v.t = "number" -> v.s # "0"
    [] OTHER -> TRUE

(* obj[key] on a sequence of entries: undefined when the key is absent *)
Get(entries, key) ==
  IF \E i \in 1..Len(entries) : entries[i].k = key
  THEN entries[CHOOSE i \in 1..Len(entries) : entries[i].k = key].v
  ELSE Undef

HasKey(entries, key) == \E i \in 1..Len(entries) : entries[i].k = key

(* obj[key] = val: in place when the key exists, appended otherwise *)
Set(entries, key, val) ==
  IF HasKey(entries, key)
  THEN [i \in 1..Len(entries) |->
          IF entries[i].k = key THEN E(key, val) ELSE entries[i]]
  ELSE Append(entries, E(key, val))

(* Object.keys(obj), in iteration order *)
Keys(entries) == [i \in 1..Len(entries) |-> entries[i].k]

(* the entries of a mapping value, wherever it lives *)
EntriesOf(h, v) ==
  CASE v.t = "object" -> h[v.r]
    [] v.t = "literal" -> v.o
    [] OTHER -> <<>>

(* v[key] for any value v: undefined on a value that has no properties *)
Prop(h, v, key) == Get(EntriesOf(h, v), key)

-----------------------------------------------------------------------------
(* The default settings document (lib/settings.json).                      *)

DEFAULT_SETTINGS ==
  << E("name", Str("CLI Helper")),
     E("description", Str("Generic CLI helper")),
     E("helpHeader", Str("Available Options")),
     E("allowForceNoThrow", Bool(TRUE)),
     E("optionDefinitions", Arr(<<Str("help"), Str("verbose"), Str("quiet"), Str("force")>>)),
     E("logging", Ref(1)) >>

InitialHeap ==
  << << E("log", Ref(2)), E("warn", Ref(3)), E("error", Ref(4)), E("debug", Ref(5)) >>,
     << E("verbose", Bool(FALSE)) >>,
     << E("verbose", Bool(TRUE)), E("prefix", Str("WARN")), E("color", Str("yellow")),
        E("stamp", Bool(TRUE)) >>,
     << E("verbose", Bool(FALSE)), E("prefix", Str("ERROR")), E("color", Str("red")),
        E("throws", Bool(TRUE)) >>,
     << E("verbose", Bool(TRUE)), E("prefix", Str("DEBUG")), E("color", Str("cyan")) >> >>

-----------------------------------------------------------------------------
(* extend(true, target, source) of the `extend` package, as mergeSettings  *)
(* calls it: target is a heap cell, source a caller's literal.             *)

(* extend(true, clone, copy) for two arrays: index by index *)
ExtendArray(clone, copy) ==
  [i \in 1..(IF Len(clone) > Len(copy) THEN Len(clone) ELSE Len(copy)) |->
     IF i <= Len(copy) /\ copy[i].t # "undefined" THEN copy[i] ELSE clone[i]]

RECURSIVE Extend(_, _, _)
Extend(h, addr, source) ==
  IF source = <<>> THEN h
  ELSE
    LET name == Head(source).k
        copy == Head(source).v
        src  == Get(h[addr], name)
        h1 ==
          CASE copy.t = "literal" ->
                 IF src.t = "object"
                 THEN Extend(h, src.r, copy.o)
                 ELSE LET fresh == Len(h) + 1
                          h0 == Extend(Append(h, <<>>), fresh, copy.o)
                      IN  [h0 EXCEPT ![addr] = Set(h0[addr], name, Ref(fresh))]
            [] copy.t = "array" ->
                 [h EXCEPT ![addr] =
                    Set(h[addr], name,
                        Arr(ExtendArray(IF IsArray(src) THEN src.a ELSE <<>>, copy.a)))]
            [] copy.t = "undefined" -> h
            [] OTHER -> [h EXCEPT ![addr] = Set(h[addr], name, copy)]
    IN  Extend(h1, addr, Tail(source))

-----------------------------------------------------------------------------
(* Errors *)

NoError == [kind |-> "none", key |-> ""]

Err(kind, key) == [kind |-> kind, key |-> key]

-----------------------------------------------------------------------------
(* Cli.mergeSettings                                                        *)

(* MergeKey with the array case assigning the override instead of          *)
(* concatenating it to the default                                          *)
MergeKey_ArrayReplaced(st, key, val) ==
  LET cur == Get(st.settings, key) IN
  IF TypeOf(cur) = TypeOf(val)
  THEN IF TypeOf(val) = "object" /\ ~IsArray(cur) /\ ~IsArray(val)
       THEN [st EXCEPT !.heap = Extend(st.heap, cur.r, val.o)]
       ELSE IF TypeOf(val) = "object" /\ IsArray(cur) # IsArray(val)
       THEN [st EXCEPT !.err = Err("CannotOverrideSetting", key)]
       ELSE [st EXCEPT !.settings = Set(st.settings, key, val)]
  ELSE IF TypeOf(cur) = "undefined"
       THEN [st EXCEPT !.settings = Set(st.settings, key, val)]
       ELSE st

(* one pass of the forEach body, on the state st = [settings, heap, err] *)
MergeKey(st, key, val) ==
  LET cur == Get(st.settings, key) IN
  IF TypeOf(cur) = TypeOf(val)
  THEN IF TypeOf(val) = "object"
       THEN IF IsArray(cur) /\ IsArray(val)
            THEN [st EXCEPT !.settings = Set(st.settings, key, Arr(cur.a \o val.a))]
            ELSE IF ~IsArray(cur) /\ ~IsArray(val)
            THEN [st EXCEPT !.heap = Extend(st.heap, cur.r, val.o)]
            ELSE [st EXCEPT !.err = Err("CannotOverrideSetting", key)]
       ELSE [st EXCEPT !.settings = Set(st.settings, key, val)]
  ELSE IF TypeOf(cur) = "undefined"
       THEN [st EXCEPT !.settings = Set(st.settings, key, val)]
       ELSE st

RECURSIVE MergeKeys(_, _)
MergeKeys(st, entries) ==
  IF entries = <<>> \/ st.err # NoError THEN st
  ELSE MergeKeys(MergeKey(st, Head(entries).k, Head(entries).v), Tail(entries))

mergeSettings(settings, h, override) ==
  IF TypeOf(override) = "object"
  THEN MergeKeys([settings |-> settings, heap |-> h, err |-> NoError],
                 IF IsArray(override)
                 THEN [i \in 1..Len(override.a) |-> E(ToString(i - 1), override.a[i])]
                 ELSE override.o)
  ELSE [settings |-> settings, heap |-> h, err |-> Err("InvalidSettings", "")]

-----------------------------------------------------------------------------
(* Cli.colorize and the generated log methods                               *)

(* the names for which colors[name] is a colouring function *)
Colors == {"red", "yellow", "cyan", "green"}

(* colors[color](str): the string wrapped in the colour's escape codes *)
Paint(color, str) == "<" \o color \o ">" \o str \o "</" \o color \o ">"

(* str.trim() === '' *)
IsBlank(str) == str \in {"", " "}

(* colorize(args, color) on an array: every string element is replaced,   *)
(* in place; the array returned is the array passed in                     *)
colorize(args, color) ==
  IF ~IsBlank(color) /\ color \in Colors
  THEN [i \in 1..Len(args) |->
          IF args[i].t = "string" THEN Str(Paint(color, args[i].s)) ELSE args[i]]
  ELSE args

(* getTimeStamp(): the clock's reading, one token *)
getTimeStamp == "TIME"

(* the channels console has as functions *)
ConsoleMethods == {"log", "warn", "error", "debug", "info", "trace"}

NoResult ==
  [visible |-> FALSE, channel |-> "", output |-> <<>>, raised |-> FALSE,
   payload |-> <<>>, events |-> <<>>]

(* Visible without the quiet flag *)
Visible_QuietIgnored(methodConfig, options) ==
  ~Truthy(methodConfig.verbose) \/ options.verbose

(* whether the call is shown at all (line 164) *)
Visible(methodConfig, options) ==
  (~Truthy(methodConfig.verbose) \/ options.verbose) /\ ~options.quiet

(* BuildOutput with the timestamp put on before the prefix, so that the    *)
(* prefix ends up in front of it                                            *)
BuildOutput_PrefixFirst(methodConfig, colored) ==
  LET prefix == IF methodConfig.prefix.t = "string" THEN methodConfig.prefix.s ELSE ""
      color  == IF methodConfig.color.t = "string" /\ methodConfig.color.s \in Colors
                THEN methodConfig.color.s ELSE ""
      out1 == IF Truthy(methodConfig.stamp)
              THEN colorize(<<Str("[" \o getTimeStamp \o "]")>>, color) \o colored
              ELSE colored
  IN  IF ~IsBlank(prefix) THEN colorize(<<Str(prefix)>>, color) \o out1 ELSE out1

(* the array handed to the console method (lines 171-188); colored is     *)
(* args after colorize has gone over it                                     *)
BuildOutput(methodConfig, colored) ==
  LET prefix == IF methodConfig.prefix.t = "string" THEN methodConfig.prefix.s ELSE ""
      color  == IF methodConfig.color.t = "string" /\ methodConfig.color.s \in Colors
                THEN methodConfig.color.s ELSE ""
      out1 == IF ~IsBlank(prefix) THEN colorize(<<Str(prefix)>>, color) \o colored
              ELSE colored
  IN  IF Truthy(methodConfig.stamp)
      THEN colorize(<<Str("[" \o getTimeStamp \o "]")>>, color) \o out1
      ELSE out1

(* Escalates with the force flag alone switching the throw off *)
Escalates_ForceAlone(methodConfig, settings, options) ==
  methodConfig.throws = Bool(TRUE) /\ ~options.force

(* whether the call throws after printing (line 194) *)
Escalates(methodConfig, settings, options) ==
  methodConfig.throws = Bool(TRUE)
    /\ ~(Truthy(Get(settings, "allowForceNoThrow")) /\ options.force)

(* what `new Error(args)` carries: the array named args at the throw *)
Payload(args, colored) == colored

(* the fields of methodConfig a log method reads, for the method record m *)
(* = [name, cfg]; cfg is the object captured when the method was made, and *)
(* its fields are read from the heap at the time of the call                *)
MethodConfig(h, m) ==
  [f \in {"verbose", "prefix", "color", "stamp", "throws"} |-> Prop(h, m.cfg, f)]

(* what the body does, in order: console output, then the throw *)
Events(escalates) == IF escalates THEN <<"print", "throw">> ELSE <<"print">>

(* this[method](...args) on a host with the given settings and options *)
LogMethod(h, settings, options, m, args) ==
  LET methodConfig == MethodConfig(h, m)
      color  == IF methodConfig.color.t = "string" /\ methodConfig.color.s \in Colors
                THEN methodConfig.color.s ELSE ""
      colored == colorize(args, color)
  IN  IF Visible(methodConfig, options)
      THEN [visible |-> TRUE,
            channel |-> IF m.name \in ConsoleMethods THEN m.name ELSE "log",
            output  |-> BuildOutput(methodConfig, colored),
            raised  |-> Escalates(methodConfig, settings, options),
            payload |-> IF Escalates(methodConfig, settings, options)
                        THEN Payload(args, colored) ELSE <<>>,
            events  |-> Events(Escalates(methodConfig, settings, options))]
      ELSE NoResult

-----------------------------------------------------------------------------
(* Cli.enableLogging                                                        *)

(* what `this` already has when enableLogging runs: the fields set in the  *)
(* constructor, the class's methods, and Object.prototype's                 *)
ExistingProps ==
  {"options", "settings", "select", "prompt", "confirm",
   "constructor", "mergeSettings", "enableLogging", "setOptions", "getOptions",
   "getHelpSections", "getTimeStamp", "showHelp",
   "toString", "valueOf", "hasOwnProperty"}

(* DefineMethods passing over a name the host already has, instead of     *)
(* failing on it                                                            *)
RECURSIVE DefineMethods_CollisionSkipped(_, _)
DefineMethods_CollisionSkipped(st, entries) ==
  IF entries = <<>> THEN st
  ELSE IF Head(entries).k \in ExistingProps
       THEN DefineMethods_CollisionSkipped(st, Tail(entries))
       ELSE DefineMethods_CollisionSkipped(
              [st EXCEPT !.methods = Append(@, [name |-> Head(entries).k,
                                                 cfg |-> Head(entries).v])],
              Tail(entries))

RECURSIVE DefineMethods(_, _)
DefineMethods(st, entries) ==
  IF entries = <<>> \/ st.err # NoError THEN st
  ELSE LET method == Head(entries).k
           methodConfig == Head(entries).v
       IN  IF method \in ExistingProps
                \/ \E i \in 1..Len(st.methods) : st.methods[i].name = method
           THEN [st EXCEPT !.err = Err("CannotOverrideMethod", method)]
           ELSE DefineMethods(
                  [st EXCEPT !.methods = Append(@, [name |-> method, cfg |-> methodConfig])],
                  Tail(entries))

enableLogging(settings, h) ==
  IF TypeOf(Get(settings, "logging")) = "object"
  THEN DefineMethods([methods |-> <<>>, err |-> NoError],
                     EntriesOf(h, Get(settings, "logging")))
  ELSE [methods |-> <<>>, err |-> NoError]

-----------------------------------------------------------------------------
(* Cli.setOptions, Cli.showHelp and the constructor                         *)

NoOptions == [verbose |-> FALSE, quiet |-> FALSE, force |-> FALSE, help |-> FALSE]

(* clArgs(optionDefinitions): the option bag parsed from process.argv, or  *)
(* the parser's own failure; av is what the process was started with       *)
setOptions(av) ==
  IF av.invalid
  THEN [options |-> NoOptions, err |-> Err("OptionsParse", "")]
  ELSE [options |-> av.options, err |-> NoError]

(* e.message for the errors the class and its collaborators raise *)
Message(e) ==
  CASE e.kind = "InvalidSettings" -> "Invalid settings provided to merge function!"
    [] e.kind = "CannotOverrideSetting" ->
         "Cannot override setting: '" \o e.key \o "' ... Type did not match!"
    [] e.kind = "CannotOverrideMethod" ->
         "Cannot override method for logging: '" \o e.key \o "' ... it already exists!"
    [] e.kind = "OptionsParse" -> "Unknown option"
    [] OTHER -> ""

Dispatch(channel, output) == [channel |-> channel, output |-> output]

(* what one log call sends to the console: nothing when it is not shown *)
Sent(res) == IF res.visible THEN <<Dispatch(res.channel, res.output)>> ELSE <<>>

(* showHelp(): the usage text on console.log; the caller then exits with 0 *)
showHelp == <<Dispatch("log", <<Str("usage")>>)>>

MethodNames(methods) == {methods[i].name : i \in 1..Len(methods)}

MethodNamed(methods, name) ==
  methods[CHOOSE i \in 1..Len(methods) : methods[i].name = name]

(* the catch block (lines 51-78), for the caught error e, on a host that   *)
(* has the given settings and log methods; this.options is still {}         *)
Catch(h, settings, methods, e) ==
  LET options == [NoOptions EXCEPT !.force = TRUE]
      msg == Str(Message(e))
      r1  == IF "error" \in MethodNames(methods)
             THEN LogMethod(h, settings, options, MethodNamed(methods, "error"), <<msg>>)
             ELSE [NoResult EXCEPT !.visible = TRUE, !.channel = "error",
                                   !.output = <<msg>>]
      r2  == LogMethod(h, settings, options, MethodNamed(methods, "debug"),
                       <<Str("Caught Error:"), Lit(<<E("message", msg)>>)>>)
  IN  IF r1.raised
      THEN [options |-> options, outcome |-> "threw", thrown |-> Err("LogEscalation", "error"),
            reported |-> Sent(r1), helpShown |-> FALSE, exitCode |-> -1]
      ELSE IF "debug" \notin MethodNames(methods)
      THEN [options |-> options, outcome |-> "threw", thrown |-> Err("TypeError", "debug"),
            reported |-> Sent(r1), helpShown |-> FALSE, exitCode |-> -1]
      ELSE IF r2.raised
      THEN [options |-> options, outcome |-> "threw", thrown |-> Err("LogEscalation", "debug"),
            reported |-> Sent(r1) \o Sent(r2), helpShown |-> FALSE, exitCode |-> -1]
      ELSE [options |-> options, outcome |-> "exited", thrown |-> NoError,
            reported |-> Sent(r1) \o Sent(r2) \o showHelp, helpShown |-> TRUE,
            exitCode |-> 0]

(* new Cli(override) in a process whose arguments are av and whose heap is *)
(* h: the host as the constructor leaves it, and the heap afterwards        *)
Constructor(h, override, av) ==
  LET merged == mergeSettings(DEFAULT_SETTINGS, h, override)
      logged == IF merged.err = NoError
                THEN enableLogging(merged.settings, merged.heap)
                ELSE [methods |-> <<>>, err |-> merged.err]
      parsed == IF logged.err = NoError
                THEN setOptions(av)
                ELSE [options |-> NoOptions, err |-> logged.err]
      e      == parsed.err
      tail   == IF e # NoError
                THEN Catch(merged.heap, merged.settings, logged.methods, e)
                ELSE IF parsed.options.help
                THEN [options |-> parsed.options, outcome |-> "exited", thrown |-> NoError,
                      reported |-> showHelp, helpShown |-> TRUE, exitCode |-> 0]
                ELSE [options |-> parsed.options, outcome |-> "returned", thrown |-> NoError,
                      reported |-> <<>>, helpShown |-> FALSE, exitCode |-> -1]
  IN  [heap |-> merged.heap,
       host |-> [override |-> override,
                 settings |-> merged.settings,
                 methods  |-> logged.methods,
                 error    |-> e,
                 options  |-> tail.options,
                 outcome  |-> tail.outcome,
                 thrown   |-> tail.thrown,
                 reported |-> tail.reported,
                 helpShown |-> tail.helpShown,
                 exitCode |-> tail.exitCode]]

-----------------------------------------------------------------------------
(* Inputs *)

O_Empty == Lit(<<>>)

O_NotObject == Str("not an object")

O_TypeMismatch == Lit(<<E("name", Num("5")), E("description", Str("Mine"))>>)

O_Options ==
  Lit(<<E("optionDefinitions", Arr(<<Str("extra"), Str("help")>>)), E("name", Str("Tool"))>>)

O_Structure ==
  Lit(<<E("helpHeader", Str("Opts")),
        E("optionDefinitions", Lit(<<E("name", Str("extra"))>>)),
        E("name", Str("Tool"))>>)

O_Logging ==
  Lit(<<E("allowForceNoThrow", Bool(FALSE)),
        E("logging", Lit(<<E("log", Lit(<<E("verbose", Bool(TRUE)), E("throws", Bool(TRUE)),
                                          E("color", Str("nocolor")), E("prefix", Str(" "))>>)),
                           E("warn", Lit(<<E("color", Str("nocolor"))>>)),
                           E("info", Lit(<<E("verbose", Bool(FALSE)), E("color", Str("green")),
                                           E("throws", Bool(TRUE))>>))>>))>>)

O_Collision ==
  Lit(<<E("logging", Lit(<<E("notice", Lit(<<E("verbose", Bool(FALSE)), E("stamp", Bool(TRUE))>>)),
                           E("options", Lit(<<E("verbose", Bool(FALSE))>>)),
                           E("last", Lit(<<E("verbose", Bool(FALSE))>>))>>))>>)

Overrides ==
  {O_Empty, O_NotObject, O_TypeMismatch, O_Options, O_Structure, O_Logging, O_Collision}

(* what the process may have been started with *)
Flags(v, q, f, hlp) == [verbose |-> v, quiet |-> q, force |-> f, help |-> hlp]

Argvs ==
  {[invalid |-> FALSE, options |-> o] :
     o \in {Flags(FALSE, FALSE, FALSE, FALSE), Flags(TRUE, FALSE, FALSE, FALSE),
            Flags(FALSE, TRUE, FALSE, FALSE), Flags(TRUE, TRUE, FALSE, FALSE),
            Flags(FALSE, FALSE, TRUE, FALSE), Flags(TRUE, FALSE, TRUE, FALSE),
            Flags(FALSE, FALSE, FALSE, TRUE)}}
    \cup {[invalid |-> TRUE, options |-> NoOptions]}

ArgLists == {<<Str("disk low")>>, <<Str("boom"), Num("1")>>}

-----------------------------------------------------------------------------
(* The process *)

NoConfig == [f \in {"verbose", "prefix", "color", "stamp", "throws"} |-> Undef]

NoCall ==
  [host |-> 0, method |-> "", args |-> <<>>, config |-> NoConfig, options |-> NoOptions,
   allowForceNoThrow |-> Undef, result |-> NoResult]

Init ==
  /\ argv \in Argvs
  /\ heap = InitialHeap
  /\ hosts = <<>>
  /\ lastCall = NoCall
  /\ exited = FALSE

(* new Cli(override) *)
Construct(override) ==
  /\ ~exited
  /\ Len(hosts) < MaxHosts
  /\ LET c == Constructor(heap, override, argv) IN
       /\ heap' = c.heap
       /\ hosts' = Append(hosts, c.host)
       /\ exited' = (c.host.outcome = "exited")
  /\ UNCHANGED <<argv, lastCall>>

(* hosts[i][name](...args), on a host the caller was given *)
Call(i, name, args) ==
  /\ ~exited
  /\ hosts[i].outcome = "returned"
  /\ name \in MethodNames(hosts[i].methods)
  /\ lastCall' = [host |-> i, method |-> name, args |-> args,
                  config |-> MethodConfig(heap, MethodNamed(hosts[i].methods, name)),
                  options |-> hosts[i].options,
                  allowForceNoThrow |-> Get(hosts[i].settings, "allowForceNoThrow"),
                  result |-> LogMethod(heap, hosts[i].settings, hosts[i].options,
                                       MethodNamed(hosts[i].methods, name), args)]
  /\ UNCHANGED <<argv, heap, hosts, exited>>

Constructs == \E override \in Overrides : Construct(override)

Calls ==
  \E i \in 1..Len(hosts) :
    \E name \in MethodNames(hosts[i].methods) :
      \E args \in ArgLists : Call(i, name, args)

Next == Constructs \/ Calls

Spec == Init /\ [][Next]_vars

-----------------------------------------------------------------------------
(* Helpers for the properties *)

(* a value with every reference replaced by what it refers to in heap h *)
RECURSIVE Deep(_, _)
Deep(h, v) ==
  CASE v.t = "object" ->
         Lit([i \in 1..Len(h[v.r]) |-> E(h[v.r][i].k, Deep(h, h[v.r][i].v))])
    [] v.t = "literal" ->
         Lit([i \in 1..Len(v.o) |-> E(v.o[i].k, Deep(h, v.o[i].v))])
    [] v.t = "array" -> Arr([i \in 1..Len(v.a) |-> Deep(h, v.a[i])])
    [] OTHER -> v

(* a settings object, at every depth, as heap h has it *)
Tree(h, settings) == Deep(h, Lit(settings))

(* how many of the override's keys mergeSettings went through without      *)
(* failing, for a host record                                               *)
MergedKeys(host) ==
  IF host.override.t # "literal" THEN 0
  ELSE IF host.error.kind = "CannotOverrideSetting"
  THEN (CHOOSE j \in 1..Len(host.override.o) : host.override.o[j].k = host.error.key) - 1
  ELSE Len(host.override.o)

(* the keys of the logging settings up to the first one the host already   *)
(* has as a property                                                        *)
FirstCollision(ks) ==
  IF \E j \in 1..Len(ks) : ks[j] \in ExistingProps
  THEN CHOOSE j \in 1..Len(ks) :
         ks[j] \in ExistingProps /\ \A l \in 1..(j - 1) : ks[l] \notin ExistingProps
  ELSE 0

-----------------------------------------------------------------------------
(* Properties *)

(* C1: for every key k of the overrides whose typeof differs from the       *)
(* typeof of the defined default at k, mergeSettings fails with a           *)
(* type-mismatch error naming k, and neither k nor any later key of the     *)
(* overrides is changed in the host's settings.                             *)
C1_TypeMismatchFails ==
  \A i \in 1..Len(hosts) :
    LET host == hosts[i]
        ov   == host.override
    IN  ov.t = "literal" =>
          \A j \in 1..Len(ov.o) :
            LET d == Get(DEFAULT_SETTINGS, ov.o[j].k) IN
            (TypeOf(d) # "undefined" /\ TypeOf(d) # TypeOf(ov.o[j].v)
               /\ \A l \in 1..(j - 1) :
                    LET dl == Get(DEFAULT_SETTINGS, ov.o[l].k) IN
                    TypeOf(dl) = "undefined" \/ TypeOf(dl) = TypeOf(ov.o[l].v))
              => /\ host.error = Err("CannotOverrideSetting", ov.o[j].k)
                 /\ \A l \in j..Len(ov.o) :
                      Get(host.settings, ov.o[l].k) = Get(DEFAULT_SETTINGS, ov.o[l].k)

(* C2: whenever mergeSettings, enableLogging or setOptions fails during     *)
(* construction, the constructor sets options.force, reports the error      *)
(* message, shows help and exits with code 0; no failure leaves the         *)
(* constructor and no host is returned.                                     *)
C2_FailedConstructionExits ==
  \A i \in 1..Len(hosts) :
    hosts[i].error # NoError =>
      /\ hosts[i].options.force
      /\ \E n \in 1..Len(hosts[i].reported) :
           \E x \in 1..Len(hosts[i].reported[n].output) :
             hosts[i].reported[n].output[x].t = "string"
      /\ hosts[i].helpShown
      /\ hosts[i].outcome = "exited"
      /\ hosts[i].exitCode = 0
      /\ hosts[i].thrown = NoError

(* C3: after any sequence of constructions the shared default settings      *)
(* document equals its initial value at every depth.                        *)
C3_DefaultsNeverMutated ==
  Tree(heap, DEFAULT_SETTINGS) = Tree(InitialHeap, DEFAULT_SETTINGS)

(* C4: constructing another host changes neither the settings tree of a     *)
(* host already constructed nor the configuration its log methods read.     *)
C4_HostsIndependent ==
  [][\A i \in 1..Len(hosts) :
       hosts[i].outcome = "returned" =>
         /\ Tree(heap', hosts'[i].settings) = Tree(heap, hosts[i].settings)
         /\ \A n \in 1..Len(hosts[i].methods) :
              MethodConfig(heap', hosts'[i].methods[n]) = MethodConfig(heap, hosts[i].methods[n])
    ]_vars

(* C5: at every key of the overrides that mergeSettings went through and    *)
(* at which both the default and the override are sequences, the merged     *)
(* value is the default sequence followed by the override sequence.         *)
C5_SequencesConcatenate ==
  \A i \in 1..Len(hosts) :
    \A j \in 1..MergedKeys(hosts[i]) :
      LET e == hosts[i].override.o[j]
          d == Get(DEFAULT_SETTINGS, e.k)
      IN  (IsArray(d) /\ IsArray(e.v)) =>
            /\ IsArray(Get(hosts[i].settings, e.k))
            /\ Get(hosts[i].settings, e.k).a = d.a \o e.v.a

C5_Witness ==
  \E i \in 1..Len(hosts) :
    /\ hosts[i].override = O_Options
    /\ hosts[i].outcome = "returned"
    /\ Get(hosts[i].settings, "optionDefinitions").a =
         <<Str("help"), Str("verbose"), Str("quiet"), Str("force"), Str("extra"), Str("help")>>

(* C6: a log method prints if and only if (config.verbose is false or       *)
(* options.verbose is true) and options.quiet is not true; otherwise the    *)
(* call sends nothing and raises nothing, whatever config.throws is.        *)
C6_VisibilityGate ==
  lastCall.host # 0 =>
    /\ lastCall.result.visible <=>
         ((lastCall.config.verbose = Bool(FALSE) \/ lastCall.options.verbose)
            /\ ~lastCall.options.quiet)
    /\ lastCall.result.visible => "print" \in {lastCall.result.events[n] :
                                                 n \in 1..Len(lastCall.result.events)}
    /\ ~lastCall.result.visible =>
         /\ lastCall.result.events = <<>>
         /\ lastCall.result.output = <<>>
         /\ ~lastCall.result.raised
    /\ lastCall.options.quiet => ~lastCall.result.visible

C6_Witness ==
  /\ lastCall.host # 0
  /\ lastCall.config.throws = Bool(TRUE)
  /\ lastCall.config.verbose = Bool(TRUE)
  /\ lastCall.options.verbose
  /\ lastCall.options.quiet
  /\ ~lastCall.result.visible
  /\ ~lastCall.result.raised

(* C7: a call that passes the visibility gate raises a failure if and only  *)
(* if config.throws is true and not (settings.allowForceNoThrow is true     *)
(* and options.force is true); when it raises, the output has been sent     *)
(* to the console before.                                                   *)
C7_Escalation ==
  (lastCall.host # 0 /\ lastCall.result.visible) =>
    /\ lastCall.result.raised <=>
         (lastCall.config.throws = Bool(TRUE)
            /\ ~(lastCall.allowForceNoThrow = Bool(TRUE) /\ lastCall.options.force))
    /\ lastCall.result.raised => lastCall.result.events = <<"print", "throw">>
    /\ ~lastCall.result.raised => lastCall.result.events = <<"print">>

C7_Witness ==
  /\ lastCall.host # 0
  /\ lastCall.result.visible
  /\ lastCall.result.raised
  /\ lastCall.options.force
  /\ lastCall.allowForceNoThrow = Bool(FALSE)

(* C8: with a non-blank prefix and stamp true, what is sent to the console  *)
(* is the timestamp token, then the prefix, then the arguments, in that     *)
(* order, strings coloured with config.color when it is a colour; for       *)
(* warn('disk low') under {verbose, prefix WARN, yellow, stamp} that is     *)
(* three elements.                                                          *)
C8_OutputOrder ==
  (/\ lastCall.host # 0
   /\ lastCall.result.visible
   /\ lastCall.config.prefix.t = "string"
   /\ lastCall.config.prefix.s \notin {"", " "}
   /\ lastCall.config.stamp = Bool(TRUE))
  => LET known == lastCall.config.color.t = "string" /\ lastCall.config.color.s \in Colors
         tint(v) == IF known /\ v.t = "string"
                    THEN Str("<" \o lastCall.config.color.s \o ">" \o v.s
                               \o "</" \o lastCall.config.color.s \o ">")
                    ELSE v
     IN  /\ lastCall.result.output =
              <<tint(Str("[TIME]")), tint(lastCall.config.prefix)>>
                \o [n \in 1..Len(lastCall.args) |-> tint(lastCall.args[n])]
         /\ (lastCall.args = <<Str("disk low")>> /\ lastCall.config.color = Str("yellow")
               /\ lastCall.config.prefix = Str("WARN"))
              => lastCall.result.output =
                   <<Str("<yellow>[TIME]</yellow>"), Str("<yellow>WARN</yellow>"),
                     Str("<yellow>disk low</yellow>")>>

C8_Witness ==
  /\ lastCall.method = "warn"
  /\ lastCall.args = <<Str("disk low")>>
  /\ lastCall.config.color = Str("yellow")
  /\ lastCall.config.stamp = Bool(TRUE)
  /\ lastCall.options.verbose
  /\ Len(lastCall.result.output) = 3

(* C9: when a log method escalates, the payload of the failure equals the   *)
(* arguments as they were passed, for every config.color.                   *)
C9_PayloadIsOriginalArgs ==
  (lastCall.host # 0 /\ lastCall.result.raised) =>
    lastCall.result.payload = lastCall.args

(* C10: enableLogging defines the logging methods in iteration order up to  *)
(* the first name the host already has, fails there with a collision error  *)
(* naming that name, and defines neither it nor any name after it.          *)
C10_CollisionPerMethod ==
  [][Len(hosts') > Len(hosts) =>
       LET host == hosts'[Len(hosts')]
           ks   == Keys(heap'[Get(host.settings, "logging").r])
           c    == FirstCollision(ks)
           names == [n \in 1..Len(host.methods) |-> host.methods[n].name]
       IN  /\ MethodNames(host.methods) \cap ExistingProps = {}
           /\ (c # 0 /\ host.error.kind \notin {"InvalidSettings", "CannotOverrideSetting"})
                => /\ host.error = Err("CannotOverrideMethod", ks[c])
                   /\ names = SubSeq(ks, 1, c - 1)
           /\ host.error.kind = "CannotOverrideMethod"
                => /\ c # 0
                   /\ host.error.key = ks[c]
                   /\ names = SubSeq(ks, 1, c - 1)
    ]_vars

C10_Witness ==
  \E i \in 1..Len(hosts) :
    /\ hosts[i].override = O_Collision
    /\ hosts[i].error = Err("CannotOverrideMethod", "options")
    /\ "notice" \in MethodNames(hosts[i].methods)
    /\ "last" \notin MethodNames(hosts[i].methods)

====
